---- MODULE Spec2Model ----
(***************************************************************************)
(* Model of the gai-google adapter: ChatCompleter.ChatComplete (request    *)
(* validation, config build, history assembly, session creation) and the  *)
(* lazy part iterator it returns (streaming reassembly, usage accounting). *)
(***************************************************************************)
EXTENDS Integers, Sequences, FiniteSets, TLC

(* ---------------------------------------------------------------- bounds *)
\* longest message list of a request
MaxMsgs == 3
\* most message parts in one request (over all its messages)
MaxParts == 2
\* most chunks the backend delivers to one call (over all its streams)
MaxChunks == 2
\* most candidate sub-parts the backend delivers to one call
MaxSubParts == 2
\* last reading of the wall clock
MaxClock == 1
\* how many times the consumer ranges over the returned sequence
MaxIterations == 2
\* longest tool list of a request
MaxTools == 3
\* nesting depth of the schemas a request declares
MaxDepth == 2

(* ------------------------------------------------------- optional values *)
Nil == [k |-> "nil"]
Err(m) == [k |-> "err", msg |-> m]

RECURSIVE Flatten(_)
Flatten(ss) == IF ss = <<>> THEN <<>> ELSE Head(ss) \o Flatten(Tail(ss))

(* ------------------------------------------------------- encoding/json  *)
\* Values a Go map[string]any holds here: strings (valid UTF-8), integers
\* and float64s. A number is the non-negative integer hi * 2^30 + lo, kept in
\* two limbs so that values around 2^53 are exact; NaN is the float64 that
\* is no number.
GoString(str) == [k |-> "string", s |-> str]
GoInt(hi, lo) == [k |-> "int", hi |-> hi, lo |-> lo]
GoFloat(hi, lo) == [k |-> "float64", hi |-> hi, lo |-> lo]
GoNaN == [k |-> "NaN"]
IsNumber(v) == v.k \in {"int", "float64"}
Limb == 2^30
\* hi of 2^53, the first integer whose successor float64 cannot hold
Hi53 == 2^23

\* strconv.ParseFloat(lit, 64) on the digits of an integer below 2^54:
\* exact below 2^53, else the nearest even integer, ties to the even mantissa
ParseFloat(hi, lo) ==
    IF hi < Hi53 \/ lo % 2 = 0 THEN GoFloat(hi, lo)
    ELSE IF lo % 4 = 1 THEN GoFloat(hi, lo - 1)
    ELSE IF lo + 1 = Limb THEN GoFloat(hi + 1, 0)
    ELSE GoFloat(hi, lo + 1)

\* A Go map[string]any is a record [nil, kv]: kv is a set of <<key, value>>
\* pairs with unique keys. JSON text is a sequence of tokens: punctuation,
\* the null literal, string literals and number literals (their digits).
NilMap == [nil |-> TRUE, kv |-> {}]
MkMap(kv) == [nil |-> FALSE, kv |-> kv]
Punct(c) == [t |-> "punct", c |-> c]
Null == [t |-> "null"]
StrLit(str) == [t |-> "string", s |-> str]
NumLit(hi, lo) == [t |-> "number", hi |-> hi, lo |-> lo]
\* byte order of the keys, as encoding/json sorts map keys
KeyOrder == <<"a", "b", "error", "output">>
KeysOf(m) == {p[1] : p \in m.kv}
ValOf(m, key) == (CHOOSE p \in m.kv : p[1] = key)[2]

\* the literal json.Marshal writes for a value: an integer and an integral
\* float64 print as their digits
MarshalValue(v) == IF v.k = "string" THEN StrLit(v.s) ELSE NumLit(v.hi, v.lo)

RECURSIVE MarshalMembers(_, _, _)
MarshalMembers(m, i, first) ==
    IF i > Len(KeyOrder) THEN <<>>
    ELSE IF KeyOrder[i] \in KeysOf(m)
         THEN (IF first THEN <<>> ELSE <<Punct(",")>>)
              \o <<StrLit(KeyOrder[i]), Punct(":"), MarshalValue(ValOf(m, KeyOrder[i]))>>
              \o MarshalMembers(m, i + 1, FALSE)
         ELSE MarshalMembers(m, i + 1, first)

\* json.Marshal of a map[string]any: NaN is an unsupported value
Marshal(m) ==
    IF m.nil THEN [err |-> Nil, text |-> <<Null>>]
    ELSE IF \E p \in m.kv : p[2].k = "NaN"
         THEN [err |-> Err("json: unsupported value: NaN"), text |-> <<>>]
         ELSE [err |-> Nil, text |-> <<Punct("{")>> \o MarshalMembers(m, 1, TRUE) \o <<Punct("}")>>]

\* the value json.Unmarshal stores in an interface for a literal: a string,
\* or a float64 for every number
UnmarshalValue(tok) == IF tok.t = "string" THEN GoString(tok.s) ELSE ParseFloat(tok.hi, tok.lo)
IsValueToken(tok) == tok.t \in {"string", "number"}

RECURSIVE ParseMembers(_, _, _)
\* members of a JSON object from token i on; kv collects them, a repeated
\* key keeps the last value
ParseMembers(toks, i, kv) ==
    IF i + 3 > Len(toks) THEN [ok |-> FALSE, kv |-> {}]
    ELSE IF toks[i].t # "string" \/ toks[i + 1] # Punct(":") \/ ~IsValueToken(toks[i + 2])
         THEN [ok |-> FALSE, kv |-> {}]
         ELSE LET kv2 == {p \in kv : p[1] # toks[i].s}
                         \cup {<<toks[i].s, UnmarshalValue(toks[i + 2])>>}
              IN  IF toks[i + 3] = Punct("}")
                  THEN [ok |-> i + 3 = Len(toks), kv |-> kv2]
                  ELSE IF toks[i + 3] = Punct(",")
                       THEN ParseMembers(toks, i + 4, kv2)
                       ELSE [ok |-> FALSE, kv |-> {}]

\* json.Unmarshal(data, &args) with args a freshly made map[string]any
Unmarshal(toks) ==
    IF toks = <<Null>> THEN [err |-> Nil, val |-> NilMap]
    ELSE IF toks = <<Punct("{"), Punct("}")>> THEN [err |-> Nil, val |-> MkMap({})]
    ELSE IF Len(toks) >= 1 /\ toks[1] = Punct("{")
         THEN LET r == ParseMembers(toks, 2, {})
              IN  IF r.ok THEN [err |-> Nil, val |-> MkMap(r.kv)]
                  ELSE [err |-> Err("invalid JSON"), val |-> MkMap({})]
         ELSE [err |-> Err("invalid JSON"), val |-> MkMap({})]

(* ------------------------------------------------ internal/schema tools *)
\* Loosely typed Go values (any): nil, string, []any, map[string]any.
VNil == [k |-> "nil"]
VStr(s) == [k |-> "str", s |-> s]
VList(l) == [k |-> "list", l |-> l]
VMap(kv) == [k |-> "map", kv |-> kv]
HasKey(v, key) == \E p \in v.kv : p[1] = key
Get(v, key) == IF HasKey(v, key) THEN (CHOOSE p \in v.kv : p[1] = key)[2] ELSE VNil
IsMap(v) == v.k = "map"
IsStr(v) == v.k = "str"

\* a genai.Schema built by the tool path; unset fields keep their zero value
ZeroSchema == [type |-> "", items |-> Nil, hasProps |-> FALSE, props |-> {},
               required |-> <<>>, description |-> ""]
Wrap(prefix, e) == Err(<<prefix>> \o e.msg)
WrapName(prefix, name, e) == Err(<<prefix, name>> \o e.msg)

\* the switch that leaves an unknown type tag without a backend type
PropertyTypeKeepsUnknown(typeStr) ==
    CASE typeStr = "string" -> "STRING"
      [] typeStr = "number" -> "NUMBER"
      [] typeStr = "integer" -> "INTEGER"
      [] typeStr = "boolean" -> "BOOLEAN"
      [] typeStr = "array" -> "ARRAY"
      [] typeStr = "object" -> "OBJECT"
      [] OTHER -> ""
\* switch typeStr of ConvertProperty: the genai.Type of a type tag
PropertyType(typeStr) ==
    CASE typeStr = "string" -> "STRING"
      [] typeStr = "number" -> "NUMBER"
      [] typeStr = "integer" -> "INTEGER"
      [] typeStr = "boolean" -> "BOOLEAN"
      [] typeStr = "array" -> "ARRAY"
      [] typeStr = "object" -> "OBJECT"
      [] OTHER -> "STRING"

RECURSIVE ConvertProperty(_)
\* result: errs is the set of errors the call can return (Go ranges over
\* maps in unspecified order, so any failing entry can be the first one);
\* schema is the result when errs is empty
ConvertProperty(prop) ==
    IF ~IsMap(prop) THEN [errs |-> {Err(<<"property is not a map">>)}, schema |-> ZeroSchema]
    ELSE
      LET t == Get(prop, "type")
          ts == IF IsStr(t) THEN t.s ELSE ""
          items == Get(prop, "items")
          sub == Get(prop, "properties")
          itemR == IF IsStr(t) /\ ts = "array" /\ IsMap(items)
                     THEN ConvertProperty(items) ELSE [errs |-> {}, schema |-> ZeroSchema]
          doProps == IsStr(t) /\ ts = "object" /\ IsMap(sub)
          subR == IF doProps THEN {<<p[1], ConvertProperty(p[2])>> : p \in sub.kv} ELSE {}
          errs == {Wrap("converting array items", e) : e \in itemR.errs}
                  \cup UNION {{WrapName("converting object property", q[1], e) : e \in q[2].errs} : q \in subR}
          \* the switch runs only when propMap["type"] is a string
          typ == IF ~IsStr(t) THEN "" ELSE PropertyType(ts)
          desc == Get(prop, "description")
      IN [errs |-> errs,
          schema |-> [type |-> typ,
                      items |-> IF IsStr(t) /\ ts = "array" /\ IsMap(items) THEN itemR.schema ELSE Nil,
                      hasProps |-> doProps,
                      props |-> {<<q[1], q[2].schema>> : q \in subR},
                      required |-> <<>>,
                      description |-> IF IsStr(desc) THEN desc.s ELSE ""]]

RECURSIVE RequiredStrings(_)
RequiredStrings(l) ==
    IF l = <<>> THEN <<>>
    ELSE (IF IsStr(Head(l)) THEN <<Head(l).s>> ELSE <<>>) \o RequiredStrings(Tail(l))

\* ConvertToolSchema that reads every map as the direct shape
ConvertToolSchemaDirect(properties) ==
    IF properties.k = "nil"
    THEN [errs |-> {}, schema |-> [ZeroSchema EXCEPT !.type = "OBJECT", !.hasProps = TRUE]]
    ELSE
      LET rs == {<<p[1], ConvertProperty(p[2])>> : p \in properties.kv}
      IN [errs |-> UNION {{WrapName("converting property", q[1], e) : e \in q[2].errs} : q \in rs},
          schema |-> [ZeroSchema EXCEPT !.type = "OBJECT", !.hasProps = TRUE,
                        !.props = {<<q[1], q[2].schema>> : q \in rs}]]

\* ConvertToolSchema that leaves out the properties that do not convert
ConvertToolSchemaLenient(properties) ==
    IF properties.k = "nil"
    THEN [errs |-> {}, schema |-> [ZeroSchema EXCEPT !.type = "OBJECT", !.hasProps = TRUE]]
    ELSE
      LET inner == Get(properties, "properties")
          wrapped == IsMap(inner)
          src == IF wrapped THEN inner.kv ELSE properties.kv
          rs == {q \in {<<p[1], ConvertProperty(p[2])>> : p \in src} : q[2].errs = {}}
          req == Get(properties, "required")
      IN [errs |-> {},
          schema |-> [ZeroSchema EXCEPT !.type = "OBJECT", !.hasProps = TRUE,
                        !.props = {<<q[1], q[2].schema>> : q \in rs},
                        !.required = IF wrapped /\ req.k = "list"
                                     THEN RequiredStrings(req.l) ELSE <<>>]]

\* gai.ToolSchema.Properties is nil or (canonicalised) a map[string]any
ConvertToolSchema(properties) ==
    IF properties.k = "nil"
    THEN [errs |-> {}, schema |-> [ZeroSchema EXCEPT !.type = "OBJECT", !.hasProps = TRUE]]
    ELSE
      LET inner == Get(properties, "properties")
          wrapped == IsMap(inner)
          src == IF wrapped THEN inner.kv ELSE properties.kv
          rs == {<<p[1], ConvertProperty(p[2])>> : p \in src}
          req == Get(properties, "required")
      IN [errs |-> UNION {{WrapName("converting property", q[1], e) : e \in q[2].errs} : q \in rs},
          schema |-> [ZeroSchema EXCEPT !.type = "OBJECT", !.hasProps = TRUE,
                        !.props = {<<q[1], q[2].schema>> : q \in rs},
                        !.required = IF wrapped /\ req.k = "list"
                                     THEN RequiredStrings(req.l) ELSE <<>>]]

ConvertToolToFunction(tool) ==
    LET r == ConvertToolSchema(tool.schema)
    IN [errs |-> {Wrap("converting schema", e) : e \in r.errs},
        decl |-> [name |-> tool.name, description |-> tool.description, parameters |-> r.schema]]

RECURSIVE ConvertToolsLoopReversed(_, _, _)
\* the loop that puts each new declaration in front of the earlier ones
ConvertToolsLoopReversed(tools, i, funcDecls) ==
    IF i > Len(tools)
    THEN [errs |-> {}, tools |-> <<[functionDeclarations |-> funcDecls]>>]
    ELSE LET r == ConvertToolToFunction(tools[i])
         IN  IF r.errs # {}
             THEN [errs |-> {WrapName("converting tool", tools[i].name, e) : e \in r.errs},
                   tools |-> <<>>]
             ELSE ConvertToolsLoopReversed(tools, i + 1, <<r.decl>> \o funcDecls)

RECURSIVE ConvertToolsLoopSkipping(_, _, _)
\* the loop that leaves a tool out when it does not convert
ConvertToolsLoopSkipping(tools, i, funcDecls) ==
    IF i > Len(tools)
    THEN [errs |-> {}, tools |-> <<[functionDeclarations |-> funcDecls]>>]
    ELSE LET r == ConvertToolToFunction(tools[i])
         IN  IF r.errs # {}
             THEN ConvertToolsLoopSkipping(tools, i + 1, funcDecls)
             ELSE ConvertToolsLoopSkipping(tools, i + 1, Append(funcDecls, r.decl))

RECURSIVE ConvertToolsLoop(_, _, _)
ConvertToolsLoop(tools, i, funcDecls) ==
    IF i > Len(tools)
    THEN [errs |-> {}, tools |-> <<[functionDeclarations |-> funcDecls]>>]
    ELSE LET r == ConvertToolToFunction(tools[i])
         IN  IF r.errs # {}
             THEN [errs |-> {WrapName("converting tool", tools[i].name, e) : e \in r.errs},
                   tools |-> <<>>]
             ELSE ConvertToolsLoop(tools, i + 1, Append(funcDecls, r.decl))

ConvertTools(tools) == ConvertToolsLoop(tools, 1, <<>>)

\* nil-able pointers, slices and any values of a schema: Nil or one of these
Ptr(v) == [k |-> "ptr", v |-> v]
Slice(l) == [k |-> "slice", l |-> l]
AnyValue(v) == [k |-> "any", v |-> v]

\* gai.Schema{}: every field at its zero value. props is the Properties map
\* as a set of <<name, sub-schema>> (empty for a nil or empty map)
GaiSchema ==
    [type |-> "", items |-> Nil, props |-> {}, required |-> <<>>, anyOf |-> Nil,
     description |-> "", default |-> Nil, enum |-> Nil, example |-> Nil, format |-> "",
     maxItems |-> Nil, maxLength |-> Nil, maxProperties |-> Nil, maximum |-> Nil,
     minItems |-> Nil, minLength |-> Nil, minProperties |-> Nil, minimum |-> Nil,
     nullable |-> Nil, pattern |-> "", propertyOrdering |-> Nil, title |-> ""]
\* result := &genai.Schema{}
GenaiSchema ==
    [type |-> "", items |-> Nil, props |-> {}, required |-> <<>>, anyOf |-> Nil,
     description |-> "", default |-> Nil, enum |-> Nil, example |-> Nil, format |-> "",
     maxItems |-> Nil, maxLength |-> Nil, maxProperties |-> Nil, maximum |-> Nil,
     minItems |-> Nil, minLength |-> Nil, minProperties |-> Nil, minimum |-> Nil,
     nullable |-> Nil, pattern |-> "", propertyOrdering |-> Nil, title |-> ""]

\* the switch that sends integer to the backend's number type
ResponseTypeIntegerAsNumber(type) ==
    CASE type = "string" -> "STRING"
      [] type = "number" -> "NUMBER"
      [] type = "integer" -> "NUMBER"
      [] type = "boolean" -> "BOOLEAN"
      [] type = "array" -> "ARRAY"
      [] type = "object" -> "OBJECT"
      [] OTHER -> "STRING"
\* switch schema.Type of ConvertResponseSchema
ResponseType(type) ==
    CASE type = "string" -> "STRING"
      [] type = "number" -> "NUMBER"
      [] type = "integer" -> "INTEGER"
      [] type = "boolean" -> "BOOLEAN"
      [] type = "array" -> "ARRAY"
      [] type = "object" -> "OBJECT"
      [] OTHER -> "STRING"

\* the copy that keeps only the constraints that apply to the result's type
CopyApplicableFields(schema, result) ==
    LET is(t) == result.type = t
        num == is("NUMBER") \/ is("INTEGER")
    IN [result EXCEPT
          !.description = schema.description,
          !.default = schema.default,
          !.enum = schema.enum,
          !.example = schema.example,
          !.format = schema.format,
          !.maxItems = IF is("ARRAY") THEN schema.maxItems ELSE Nil,
          !.maxLength = IF is("STRING") THEN schema.maxLength ELSE Nil,
          !.maxProperties = IF is("OBJECT") THEN schema.maxProperties ELSE Nil,
          !.maximum = IF num THEN schema.maximum ELSE Nil,
          !.minItems = IF is("ARRAY") THEN schema.minItems ELSE Nil,
          !.minLength = IF is("STRING") THEN schema.minLength ELSE Nil,
          !.minProperties = IF is("OBJECT") THEN schema.minProperties ELSE Nil,
          !.minimum = IF num THEN schema.minimum ELSE Nil,
          !.nullable = schema.nullable,
          !.pattern = IF is("STRING") THEN schema.pattern ELSE "",
          !.propertyOrdering = IF is("OBJECT") THEN schema.propertyOrdering ELSE Nil,
          !.title = schema.title]
\* "Copy all other fields": seventeen assignments, whatever the type
CopyFields(schema, result) ==
    [result EXCEPT
       !.description = schema.description,
       !.default = schema.default,
       !.enum = schema.enum,
       !.example = schema.example,
       !.format = schema.format,
       !.maxItems = schema.maxItems,
       !.maxLength = schema.maxLength,
       !.maxProperties = schema.maxProperties,
       !.maximum = schema.maximum,
       !.minItems = schema.minItems,
       !.minLength = schema.minLength,
       !.minProperties = schema.minProperties,
       !.minimum = schema.minimum,
       !.nullable = schema.nullable,
       !.pattern = schema.pattern,
       !.propertyOrdering = schema.propertyOrdering,
       !.title = schema.title]

\* results of a recursive call that is not made, and of *p on a nil p
NotConverted == [errs |-> {}, panic |-> FALSE, schema |-> Nil]
NilDereference == [errs |-> {}, panic |-> TRUE, schema |-> Nil]
WrapIndex(prefix, i, e) == Err(<<prefix, ToString(i)>> \o e.msg)

RECURSIVE ConvertResponseSchemaStrict(_)
\* ConvertResponseSchema whose default branch rejects the type tag
ConvertResponseSchemaStrict(schema) ==
    LET known == schema.type \in {"string", "number", "integer", "boolean", "array", "object"}
        itemR == IF schema.type = "array" /\ schema.items # Nil
                 THEN ConvertResponseSchemaStrict(schema.items) ELSE NotConverted
        propR == IF schema.type = "object"
                 THEN {<<p[1], IF p[2] = Nil THEN NilDereference
                               ELSE ConvertResponseSchemaStrict(p[2])>> : p \in schema.props}
                 ELSE {}
        anyOf == IF schema.anyOf # Nil THEN schema.anyOf.l ELSE <<>>
        anyR == [i \in DOMAIN anyOf |->
                    IF anyOf[i] = Nil THEN NilDereference
                    ELSE ConvertResponseSchemaStrict(anyOf[i])]
        typed == [GenaiSchema EXCEPT
                    !.type = ResponseType(schema.type),
                    !.items = itemR.schema,
                    !.props = {<<q[1], q[2].schema>> : q \in propR},
                    !.required = IF schema.type = "object" THEN schema.required ELSE <<>>]
    IN [errs |-> (IF known THEN {} ELSE {Err(<<"unknown type">>)})
                 \cup {Wrap("converting array items", e) : e \in itemR.errs}
                 \cup UNION {{WrapName("converting property", q[1], e) : e \in q[2].errs} : q \in propR}
                 \cup UNION {{WrapIndex("converting anyOf", i - 1, e) : e \in anyR[i].errs} : i \in DOMAIN anyR},
        panic |-> \/ itemR.panic
                  \/ \E q \in propR : q[2].panic
                  \/ \E i \in DOMAIN anyR : anyR[i].panic,
        schema |-> [CopyFields(schema, typed) EXCEPT
                      !.anyOf = IF schema.anyOf # Nil
                                THEN Slice([i \in DOMAIN anyR |-> anyR[i].schema]) ELSE Nil]]

RECURSIVE ConvertResponseSchema(_)
\* ConvertResponseSchema on a gai.Schema: the type switch with its recursive
\* calls, the copied fields, the AnyOf loop. errs is the set of errors the
\* call can return, panic tells that it dereferences a nil sub-schema
ConvertResponseSchema(schema) ==
    LET itemR == IF schema.type = "array" /\ schema.items # Nil
                 THEN ConvertResponseSchema(schema.items) ELSE NotConverted
        \* the range over Properties runs when len(schema.Properties) > 0
        propR == IF schema.type = "object"
                 THEN {<<p[1], IF p[2] = Nil THEN NilDereference
                               ELSE ConvertResponseSchema(p[2])>> : p \in schema.props}
                 ELSE {}
        anyOf == IF schema.anyOf # Nil THEN schema.anyOf.l ELSE <<>>
        anyR == [i \in DOMAIN anyOf |->
                    IF anyOf[i] = Nil THEN NilDereference
                    ELSE ConvertResponseSchema(anyOf[i])]
        typed == [GenaiSchema EXCEPT
                    !.type = ResponseType(schema.type),
                    !.items = itemR.schema,
                    !.props = {<<q[1], q[2].schema>> : q \in propR},
                    !.required = IF schema.type = "object" THEN schema.required ELSE <<>>]
    IN [errs |-> {Wrap("converting array items", e) : e \in itemR.errs}
                 \cup UNION {{WrapName("converting property", q[1], e) : e \in q[2].errs} : q \in propR}
                 \cup UNION {{WrapIndex("converting anyOf", i - 1, e) : e \in anyR[i].errs} : i \in DOMAIN anyR},
        panic |-> \/ itemR.panic
                  \/ \E q \in propR : q[2].panic
                  \/ \E i \in DOMAIN anyR : anyR[i].panic,
        \* if schema.AnyOf != nil: make([]*genai.Schema, len(schema.AnyOf))
        schema |-> [CopyFields(schema, typed) EXCEPT
                      !.anyOf = IF schema.anyOf # Nil
                                THEN Slice([i \in DOMAIN anyR |-> anyR[i].schema]) ELSE Nil]]

(* ------------------------------------------------------ gai request data *)
\* gai.MessagePart values of a request
TextPart(t) == [type |-> "text", text |-> t]
ToolCallPart(id, name, args) == [type |-> "tool_call", id |-> id, name |-> name, args |-> args]
ToolResultPart(id, name, content, err) ==
    [type |-> "tool_result", id |-> id, name |-> name, content |-> content, err |-> err]
\* part.Data is an io.Reader: its bytes, and whether reading it fails
DataPart(mime, bytes, fails) == [type |-> "data", mime |-> mime, bytes |-> bytes, fails |-> fails]
\* a part whose Type is none of the four known kinds
OtherPart == [type |-> "image"]

\* genai.Part values of the request history
GText(t) == [k |-> "text", text |-> t]
GFunctionCall(id, name, args) == [k |-> "functionCall", id |-> id, name |-> name, args |-> args]
GFunctionResponse(id, name, response) ==
    [k |-> "functionResponse", id |-> id, name |-> name, response |-> response]
GInlineData(mime, data) == [k |-> "inlineData", mime |-> mime, data |-> data]

EmptyResponse == [history |-> <<>>, live |-> <<>>, hasParts |-> FALSE]
\* the zero genai.GenerateContentConfig, as far as ChatComplete fills it
NoConfig == [tools |-> <<>>, responseSchema |-> Nil, responseMIMEType |-> ""]
Panic(m, ev) ==
    [kind |-> "panic", msg |-> <<m>>, events |-> ev, res |-> EmptyResponse, config |-> NoConfig]
\* Fail that hands back a usable response next to the error
FailWithResponse(e, ev) ==
    [kind |-> "error", msg |-> e.msg, events |-> ev,
     res |-> [history |-> <<>>, live |-> <<>>, hasParts |-> TRUE], config |-> NoConfig]
\* return gai.ChatCompleteResponse{}, err
Fail(e, ev) ==
    [kind |-> "error", msg |-> e.msg, events |-> ev, res |-> EmptyResponse, config |-> NoConfig]

\* a payload that adds the error to the output instead of replacing it
ToolResultResponseBoth(part) ==
    IF part.err # Nil
    THEN MkMap({<<"output", GoString(part.content)>>, <<"error", GoString(part.err.msg)>>})
    ELSE MkMap({<<"output", GoString(part.content)>>})

\* res := map[string]any{"output": ...}, replaced by {"error": ...} when the
\* result carries an error
ToolResultResponse(part) ==
    IF part.err # Nil
    THEN MkMap({<<"error", GoString(part.err.msg)>>})
    ELSE MkMap({<<"output", GoString(part.content)>>})

RECURSIVE AssembleParts(_, _, _, _)
\* the loop over m.Parts of one message; content is the parts appended so
\* far, ev the effects so far
AssembleParts(parts, j, content, ev) ==
    IF j > Len(parts) THEN [kind |-> "ok", parts |-> content, events |-> ev]
    ELSE
      LET part == parts[j] IN
      CASE part.type = "text" ->
             AssembleParts(parts, j + 1, Append(content, GText(part.text)), ev)
        [] part.type = "tool_call" ->
             LET u == Unmarshal(part.args) IN
             IF u.err # Nil
             THEN Fail(Wrap("error unmarshaling request tool call args", Err(<<u.err.msg>>)), ev)
             ELSE AssembleParts(parts, j + 1,
                                Append(content, GFunctionCall(part.id, part.name, u.val)), ev)
        [] part.type = "tool_result" ->
             LET res == ToolResultResponse(part)
             IN AssembleParts(parts, j + 1,
                              Append(content, GFunctionResponse(part.id, part.name, res)), ev)
        [] part.type = "data" ->
             IF part.fails
             THEN Fail(Wrap("error reading request data", Err(<<"read failed">>)),
                       Append(ev, "io.ReadAll"))
             ELSE AssembleParts(parts, j + 1,
                                Append(content, GInlineData(part.mime, part.bytes)),
                                Append(ev, "io.ReadAll"))
        [] OTHER -> Panic("unknown part type", ev)

\* a role switch whose default case accepts the role
KnownRoleAny(role) == TRUE

\* the cases of the switch on m.Role
KnownRole(role) == role \in {"user", "model"}

RECURSIVE AssembleHistory(_, _, _, _)
\* the loop over req.Messages
AssembleHistory(msgs, i, history, ev) ==
    IF i > Len(msgs) THEN [kind |-> "ok", history |-> history, events |-> ev]
    ELSE
      LET m == msgs[i] IN
      IF ~KnownRole(m.role) THEN Panic("unknown role", ev)
      ELSE LET r == AssembleParts(m.parts, 1, <<>>, ev) IN
           IF r.kind # "ok" THEN r
           ELSE AssembleHistory(msgs, i + 1,
                                Append(history, [role |-> m.role, parts |-> r.parts]),
                                r.events)

\* Validate without the check of the last message's role
ValidateNoRoleCheck(msgs) ==
    IF Len(msgs) = 0 THEN "no messages" ELSE ""

\* the two precondition checks at the top of ChatComplete
Validate(msgs) ==
    IF Len(msgs) = 0 THEN "no messages"
    ELSE IF msgs[Len(msgs)].role # "user" THEN "last message must have user role"
    ELSE ""

\* SplitLast that takes the first turn as the live one
SplitFirst(history) ==
    [history |-> SubSeq(history, 2, Len(history)),
     live |-> history[1].parts]

\* lastContent / history[:len(history)-1]
SplitLast(history) ==
    [history |-> SubSeq(history, 1, Len(history) - 1),
     live |-> history[Len(history)].parts]

\* ChatComplete up to its return: the set of outcomes it can have on req
\* when session creation succeeds iff createOK; config is the config the
\* session was created with
ChatCompleteOutcomes(req, createOK) ==
    LET v == Validate(req.msgs) IN
    IF v # "" THEN {Panic(v, <<>>)}
    ELSE
      LET t == IF Len(req.tools) > 0 THEN ConvertTools(req.tools)
               ELSE [errs |-> {}, tools |-> <<>>]
          ev1 == IF Len(req.tools) > 0 THEN <<"ConvertTools">> ELSE <<>>
      IN
      IF t.errs # {} THEN {Fail(Wrap("error converting tools", e), ev1) : e \in t.errs}
      ELSE
        LET s == IF req.schema # Nil THEN ConvertResponseSchema(req.schema)
                 ELSE NotConverted
            ev2 == IF req.schema # Nil THEN Append(ev1, "ConvertResponseSchema") ELSE ev1
        IN
        IF s.panic THEN {Panic("nil pointer dereference", ev2)}
        ELSE IF s.errs # {}
        THEN {Fail(Wrap("error converting response schema", e), ev2) : e \in s.errs}
        ELSE
          LET h == AssembleHistory(req.msgs, 1, <<>>, ev2) IN
          IF h.kind # "ok" THEN {h}
          ELSE
            LET sp == SplitLast(h.history)
                ev3 == Append(h.events, "Chats.Create")
            IN
            IF ~createOK THEN {Fail(Err(<<"chat session creation failed">>), ev3)}
            ELSE {[kind |-> "ok", msg |-> <<>>, events |-> ev3,
                   res |-> [history |-> sp.history, live |-> sp.live, hasParts |-> TRUE],
                   config |-> [tools |-> t.tools, responseSchema |-> s.schema,
                               responseMIMEType |->
                                   IF req.schema # Nil THEN "application/json" ELSE ""]]}

(* ------------------------------------------------------- request inputs *)
Roles == {"user", "model", "system"}
GoodArgs == <<Punct("{"), StrLit("a"), Punct(":"), NumLit(0, 1), Punct("}")>>
BadArgs == <<Punct("{"), StrLit("a")>>
\* parts that assemble
WellFormedParts ==
    {TextPart("hi"),
     ToolCallPart("c1", "f", GoodArgs),
     ToolResultPart("c1", "f", "ok", Nil),
     ToolResultPart("c2", "f", "partial", Err("boom")),
     DataPart("image/png", <<1, 2>>, FALSE)}
\* parts among which some do not: malformed args, a failing reader, an
\* unknown kind
MalformedParts ==
    {TextPart("hi"),
     ToolCallPart("c2", "f", BadArgs),
     DataPart("image/png", <<>>, TRUE),
     OtherPart}
\* a request draws its parts from one of these
PartAlphabets == {WellFormedParts, MalformedParts}

GoodTool == [name |-> "read_file", description |-> "Read a file",
             schema |-> VMap({<<"path", VMap({<<"type", VStr("string")>>})>>})]
BadTool == [name |-> "bad", description |-> "Not a schema",
            schema |-> VMap({<<"path", VStr("string")>>})]
\* a tool without parameters, and one whose nested property is no map
ListTool == [name |-> "list_dir", description |-> "List the directory", schema |-> VNil]
NestedBadTool ==
    [name |-> "worse", description |-> "Bad nested property",
     schema |-> VMap({<<"opts", VMap({<<"type", VStr("object")>>,
                                      <<"properties", VMap({<<"x", VStr("int")>>})>>})>>})]
ToolAlphabet == {GoodTool, ListTool, BadTool, NestedBadTool}
StringSchema == [GaiSchema EXCEPT !.type = "string", !.description = "answer"]
\* req.Tools and req.ResponseSchema of a request
ReqOptions ==
    {[tools |-> <<>>, schema |-> Nil],
     [tools |-> <<GoodTool>>, schema |-> StringSchema],
     [tools |-> <<GoodTool, BadTool>>, schema |-> Nil]}

NonDecreasing(o) == \A i, j \in DOMAIN o : i <= j => o[i] <= o[j]
\* the parts of flat that owner gives to message i (a contiguous run)
PartsOf(flat, owner, i) ==
    LET idxs == {j \in DOMAIN flat : owner[j] = i}
        first == IF idxs = {} THEN 0 ELSE CHOOSE j \in idxs : \A l \in idxs : j <= l
    IN [l \in 1..Cardinality(idxs) |-> flat[first + l - 1]]

\* the message list of n messages with roles rs whose parts are flat, dealt
\* out by owner
MessageList(n, rs, flat, owner) ==
    [i \in 1..n |-> [role |-> rs[i], parts |-> PartsOf(flat, owner, i)]]
Request(ms, tl, sc) == [msgs |-> ms, tools |-> tl, schema |-> sc]

\* argument maps a tool call can carry: a string, small numbers, and
\* integers next to 2^53
ArgKeys == {"a", "b"}
ArgValues == {GoString("x"), GoInt(0, 7), GoFloat(0, 1),
              GoInt(Hi53, 1), GoInt(Hi53, 3), GoFloat(Hi53, 2)}
MapOf(f) == MkMap({<<key, f[key]>> : key \in DOMAIN f})
CallIds == {"c1", "c2"}
CallNames == {"f", "g"}

\* the requests the streaming specification starts from
StreamRequests ==
    {Request(ms, <<>>, Nil) :
        ms \in {<<>>, <<[role |-> "user", parts |-> <<TextPart("hi")>>]>>}}

(* ------------------------------------------------------- schema inputs *)
\* property definitions without a nested definition: typed, of an unknown
\* type, without a type, with a type that is no string, no map at all, and
\* an array and two objects that give no usable nested definitions
LeafDefs ==
    {VMap({<<"type", VStr("string")>>, <<"description", VStr("d")>>}),
     VMap({<<"type", VStr("integer")>>}),
     VMap({<<"type", VStr("custom")>>}),
     VMap({<<"description", VStr("d")>>}),
     VMap({<<"type", VList(<<VStr("string")>>)>>}),
     VStr("string"),
     VMap({<<"type", VStr("array")>>}),
     VMap({<<"type", VStr("object")>>}),
     VMap({<<"type", VStr("object")>>, <<"properties", VStr("x")>>})}

RECURSIVE PropertyDefs(_)
\* property definitions nested at most d deep
PropertyDefs(d) ==
    IF d = 0 THEN LeafDefs
    ELSE LET sub == PropertyDefs(d - 1)
         IN  LeafDefs
             \cup {VMap({<<"type", VStr("array")>>, <<"items", i>>}) : i \in sub}
             \cup {VMap({<<"type", VStr("object")>>,
                         <<"properties", VMap({<<"x", i>>})>>}) : i \in sub}

PropNames == {"x", "y"}
\* what can stand next to a wrapped "properties" map
RequiredShapes ==
    {{},
     {<<"required", VList(<<VStr("x")>>)>>},
     {<<"required", VList(<<VStr("y"), VNil, VStr("x")>>)>>, <<"type", VStr("object")>>},
     {<<"required", VStr("x")>>}}
\* the Properties values that carry the definitions kv: the direct shape,
\* the wrapped shapes, and direct shapes with a key named like a wrapper's
ToolSchemaShapes(kv) ==
    {VMap(kv)}
    \cup {VMap({<<"properties", VMap(kv)>>} \cup r) : r \in RequiredShapes}
    \cup {VMap(kv \cup {<<"properties", VStr("string")>>}),
          VMap(kv \cup {<<"required", VList(<<VStr("x")>>)>>})}
SchemaTool(properties) ==
    [name |-> "t", description |-> "A tool", schema |-> properties]
UserHi == <<[role |-> "user", parts |-> <<TextPart("hi")>>]>>

\* the constraint fields of a gai.Schema: none set, all set, some set (with
\* an empty list and pointers to zero values)
NoConstraints ==
    [description |-> "", default |-> Nil, enum |-> Nil, example |-> Nil, format |-> "",
     maxItems |-> Nil, maxLength |-> Nil, maxProperties |-> Nil, maximum |-> Nil,
     minItems |-> Nil, minLength |-> Nil, minProperties |-> Nil, minimum |-> Nil,
     nullable |-> Nil, pattern |-> "", propertyOrdering |-> Nil, title |-> ""]
AllConstraints ==
    [description |-> "Test description", default |-> AnyValue("default value"),
     enum |-> Slice(<<"option1", "option2">>), example |-> AnyValue("example value"),
     format |-> "email", maxItems |-> Ptr(50), maxLength |-> Ptr(100),
     maxProperties |-> Ptr(20), maximum |-> Ptr(100), minItems |-> Ptr(5),
     minLength |-> Ptr(10), minProperties |-> Ptr(2), minimum |-> Ptr(10),
     nullable |-> Ptr(TRUE), pattern |-> "^[a-z]+$",
     propertyOrdering |-> Slice(<<"first", "second">>), title |-> "Test Title"]
SomeConstraints ==
    [description |-> "", default |-> Nil, enum |-> Slice(<<>>), example |-> Nil, format |-> "",
     maxItems |-> Ptr(0), maxLength |-> Nil, maxProperties |-> Ptr(1), maximum |-> Nil,
     minItems |-> Nil, minLength |-> Ptr(0), minProperties |-> Nil, minimum |-> Ptr(0),
     nullable |-> Ptr(FALSE), pattern |-> "", propertyOrdering |-> Nil, title |-> "T"]
ConstraintSets == {NoConstraints, AllConstraints, SomeConstraints}
\* a gai.Schema literal of type t with the constraint fields c
Node(t, c) ==
    [type |-> t, items |-> Nil, props |-> {}, required |-> <<>>, anyOf |-> Nil,
     description |-> c.description, default |-> c.default, enum |-> c.enum,
     example |-> c.example, format |-> c.format, maxItems |-> c.maxItems,
     maxLength |-> c.maxLength, maxProperties |-> c.maxProperties,
     maximum |-> c.maximum, minItems |-> c.minItems, minLength |-> c.minLength,
     minProperties |-> c.minProperties, minimum |-> c.minimum,
     nullable |-> c.nullable, pattern |-> c.pattern,
     propertyOrdering |-> c.propertyOrdering, title |-> c.title]
\* the six types, no type, an unknown type
SchemaTypes == {"string", "number", "integer", "boolean", "array", "object", "", "custom"}
IntegerLeaf == Node("integer", [NoConstraints EXCEPT !.description = "Integer option"])
\* schemas without a converted sub-schema
LeafSchemas ==
    {Node(t, c) : t \in SchemaTypes, c \in ConstraintSets}
    \cup {[Node("string", NoConstraints) EXCEPT !.anyOf = Slice(<<>>)],
          [Node("string", NoConstraints) EXCEPT !.items = IntegerLeaf,
                                                !.props = {<<"x", IntegerLeaf>>},
                                                !.required = <<"x">>]}
\* schemas with a nil sub-schema
NilSubSchemas ==
    {[Node("object", NoConstraints) EXCEPT !.props = {<<"x", Nil>>}],
     [Node("string", NoConstraints) EXCEPT !.anyOf = Slice(<<Nil>>)]}

RECURSIVE ResponseSchemas(_)
\* schema trees nested at most d deep
ResponseSchemas(d) ==
    IF d = 0 THEN LeafSchemas
    ELSE LET sub == ResponseSchemas(d - 1)
             some == {NoConstraints, AllConstraints}
         IN  LeafSchemas \cup NilSubSchemas
             \cup {[Node("array", c) EXCEPT !.items = i] : i \in sub, c \in some}
             \cup {[Node("object", AllConstraints) EXCEPT !.props = {<<"x", i>>}, !.required = r] :
                      i \in sub, r \in {<<>>, <<"x">>}}
             \cup {[Node("object", NoConstraints) EXCEPT
                       !.props = {<<"x", i>>, <<"y", IntegerLeaf>>},
                       !.required = <<"y", "x">>] : i \in sub}
             \cup {[Node("string", NoConstraints) EXCEPT !.anyOf = Slice(l)] :
                      l \in UNION {{<<i>>, <<i, IntegerLeaf>>} : i \in sub}}

(* -------------------------------------------------------- backend chunks *)
\* ids of function calls: a literal string of the backend, or the digest
\* createRandomID computes
Lit(str) == [k |-> "lit", s |-> str]
NoFC == [k |-> "nil"]
FC(id, name, args) == [k |-> "fc", id |-> id, name |-> name, args |-> args]
SubPart(text, fc) == [text |-> text, fc |-> fc]
TextOnly == SubPart("a", NoFC)
Neither == SubPart("", NoFC)
CallWithId == SubPart("", FC(Lit("c1"), "f", MkMap({<<"a", GoFloat(0, 1)>>})))
CallNoId == SubPart("", FC(Lit(""), "g", MkMap({})))
CallBadArgs == SubPart("", FC(Lit("c2"), "f", MkMap({<<"a", GoNaN>>})))
TextAndCall == SubPart("b", FC(Lit("c3"), "f", NilMap))
SubParts == {TextOnly, Neither, CallWithId, CallBadArgs}
\* function calls with and without a backend id
IdSubParts == {CallWithId, CallNoId}
\* the sub-parts of the streams the cancellation is checked on
PlainSubParts == {TextOnly, CallWithId}

Usage(p, t, c, tot) == [k |-> "usage", prompt |-> p, thoughts |-> t, candidates |-> c, total |-> tot]
Usages == {Nil, Usage(3, 0, 0, 3), Usage(3, 2, 4, 9)}

\* cand: "none" = no candidates, "nocontent" = first candidate without
\* content, "content" = first candidate with content
Chunk(u, cand, parts) == [usage |-> u, cand |-> cand, parts |-> parts]
CandKinds == {"none", "nocontent", "content"}

(* ------------------------------------------------------------- the state *)
VARIABLES
    req,        \* the request ChatComplete was called with
    call,       \* outcome of ChatComplete: kind, error message, effects, response
    meta,       \* res.Meta.Usage, the usage accumulator of the call
    cancelled,  \* the call's context is cancelled
    sent,       \* the live-part lists passed to chat.SendStream, in order
    streamOpen, \* a SendStream iterator is running
    pc,         \* position of the part iterator: idle, pull, parts, done
    received,   \* chunks the running iteration has pulled
    cur, idx,   \* sub-parts of the chunk being processed and the next one
    out,        \* (part, error) pairs yielded to the consumer, this iteration
    declinedAt, \* index in out of the element the consumer declined, or 0
    stop,       \* why the iteration ended: "", end, declined, error
    nChunks, nSubParts, \* chunks and sub-parts delivered so far
    clock,      \* last reading of time.Now()
    peer        \* a second ChatComplete call running at the same time

vars == <<req, call, meta, cancelled, sent, streamOpen, pc, received, cur, idx,
          out, declinedAt, stop, nChunks, nSubParts, clock, peer>>

ZeroUsage == [prompt |-> 0, thoughts |-> 0, completion |-> 0, total |-> 0]

\* Accumulators live at addresses. The first call's accumulator is the cell
\* meta; a second call holds the address of its own.
MetaAddrs == {"meta1", "meta2"}
MainMeta == "meta1"
NoPeer == [pc |-> "none", ptr |-> "", meta |-> ZeroUsage, received |-> <<>>]

NoRequest == [msgs |-> <<>>, tools |-> <<>>, schema |-> Nil]
NoCall == [kind |-> "none", msg |-> <<>>, events |-> <<>>, res |-> EmptyResponse,
           config |-> NoConfig]

Init ==
    /\ req = NoRequest
    /\ call = NoCall
    /\ meta = ZeroUsage
    /\ cancelled = FALSE
    /\ sent = <<>>
    /\ streamOpen = FALSE
    /\ pc = "idle"
    /\ received = <<>>
    /\ cur = <<>>
    /\ idx = 1
    /\ out = <<>>
    /\ declinedAt = 0
    /\ stop = ""
    /\ nChunks = 0
    /\ nSubParts = 0
    /\ clock = 0
    /\ peer = NoPeer

iterVars == <<streamOpen, pc, received, cur, idx, out, declinedAt, stop, nChunks, nSubParts, clock>>

\* ChatComplete that starts the streaming send before it returns
ChatCompleteEager(r) ==
    /\ call.kind = "none"
    /\ \E createOK \in BOOLEAN :
         \E o \in ChatCompleteOutcomes(r, createOK) :
            /\ req' = r
            /\ call' = o
            /\ sent' = IF o.kind = "ok" THEN Append(sent, o.res.live) ELSE sent
    /\ meta' = ZeroUsage
    /\ UNCHANGED <<peer, cancelled>>
    /\ UNCHANGED iterVars

\* ChatComplete(ctx, r): validation, config, assembly, session creation
\* (which the backend lets succeed or fail), and the fresh accumulator
ChatComplete(r) ==
    /\ call.kind = "none"
    /\ \E createOK \in BOOLEAN :
         \E o \in ChatCompleteOutcomes(r, createOK) :
            /\ req' = r
            /\ call' = o
    /\ meta' = ZeroUsage
    /\ UNCHANGED <<peer, cancelled, sent>>
    /\ UNCHANGED iterVars

(* ------------------------------------------------------ the part iterator *)
\* elements of the output sequence: (gai.MessagePart, error)
OutText(t) == [type |-> "text", text |-> t]
OutToolCall(id, name, args) == [type |-> "tool_call", id |-> id, name |-> name, args |-> args]
ZeroPart == [type |-> ""]
Elem(part, err) == [part |-> part, err |-> err]

\* createRandomID that returns the empty string
createRandomIDEmpty(t) == Lit("")

\* time.Now().Format(time.RFC3339Nano) and its SHA-256 digest in hex (64
\* characters): equal readings give equal ids
createRandomID(t) == [k |-> "sha256", of |-> <<"RFC3339Nano", t>>]

\* the consumer starts ranging over res.Parts(): the iterator function runs
\* and calls chat.SendStream(ctx, lastContent.Parts...)
StartIteration ==
    /\ call.kind = "ok"
    /\ pc \in {"idle", "done"}
    /\ Len(sent) < MaxIterations
    /\ sent' = Append(sent, call.res.live)
    /\ streamOpen' = TRUE
    /\ pc' = "pull"
    /\ received' = <<>>
    /\ cur' = <<>>
    /\ idx' = 1
    /\ out' = <<>>
    /\ declinedAt' = 0
    /\ stop' = ""
    /\ UNCHANGED <<peer, req, call, meta, cancelled, nChunks, nSubParts, clock>>

\* the guard of the continue: the chunk carries no candidate content
NoCandidateContent(chunk) == chunk.cand \in {"none", "nocontent"}

\* UpdateUsage that keeps the first usage a stream reported
UpdateUsageFirst(m, chunk) ==
    IF chunk.usage # Nil /\ m.prompt = 0 /\ m.thoughts = 0 /\ m.completion = 0
    THEN [prompt |-> chunk.usage.prompt,
          thoughts |-> chunk.usage.thoughts,
          completion |-> chunk.usage.candidates,
          total |-> 0]
    ELSE m

\* UpdateUsage that clears the accumulator on a chunk without usage
UpdateUsageResets(m, chunk) ==
    IF chunk.usage # Nil
    THEN [prompt |-> chunk.usage.prompt,
          thoughts |-> chunk.usage.thoughts,
          completion |-> chunk.usage.candidates,
          total |-> 0]
    ELSE [prompt |-> 0, thoughts |-> 0, completion |-> 0, total |-> 0]

\* meta.Usage = gai.ChatCompleteResponseUsage{...}: the literal sets three
\* fields, every other field of the struct gets its zero value
UpdateUsage(m, chunk) ==
    IF chunk.usage # Nil
    THEN [prompt |-> chunk.usage.prompt,
          thoughts |-> chunk.usage.thoughts,
          completion |-> chunk.usage.candidates,
          total |-> 0]
    ELSE m

\* Return that goes on with the next chunk instead of ending the function
ReturnResumes(why) ==
    /\ pc' = "pull"
    /\ stop' = why
    /\ streamOpen' = FALSE
    /\ cur' = <<>>
    /\ idx' = 1

\* Return that leaves the SendStream iterator running
ReturnLeak(why) ==
    /\ pc' = "done"
    /\ stop' = why
    /\ streamOpen' = streamOpen
    /\ cur' = <<>>
    /\ idx' = 1

\* the return out of the range loop: the iterator function ends and the
\* SendStream iterator is stopped
Return(why) ==
    /\ pc' = "done"
    /\ stop' = why
    /\ streamOpen' = FALSE
    /\ cur' = <<>>
    /\ idx' = 1

\* yield(part, err): the consumer's loop body gets the next elements
YieldFirst(o, elems) == elems \o o
Yield(o, elems) == o \o elems

\* "if !yield(...) { return }": the loop returns when the consumer declines
IgnoresDecline(accepted) == FALSE
ReturnsOnDecline(accepted) == ~accepted

\* the loop after the usage update that ends on a chunk without candidate
\* content
AfterUsageStop(chunk) ==
    IF NoCandidateContent(chunk)
    THEN /\ Return("end")
         /\ UNCHANGED <<out, declinedAt>>
    ELSE /\ IF chunk.parts = <<>>
            THEN pc' = "pull" /\ cur' = <<>>
            ELSE pc' = "parts" /\ cur' = chunk.parts
         /\ idx' = 1
         /\ UNCHANGED <<streamOpen, out, declinedAt, stop>>

\* the loop after the usage update: a chunk without candidate content is
\* skipped (continue), else the loop over its sub-parts starts
AfterUsage(chunk) ==
    /\ IF NoCandidateContent(chunk) \/ chunk.parts = <<>>
       THEN pc' = "pull" /\ cur' = <<>>
       ELSE pc' = "parts" /\ cur' = chunk.parts
    /\ idx' = 1
    /\ UNCHANGED <<streamOpen, out, declinedAt, stop>>

\* the stream delivers a chunk with usage of US and sub-parts of SP
PullChunkFrom(US, SP) ==
    /\ pc = "pull"
    /\ ~cancelled
    /\ nChunks < MaxChunks
    /\ \E u \in US, kind \in CandKinds :
         \E l \in 0..(IF kind = "content" THEN MaxSubParts - nSubParts ELSE 0) :
           \E ps \in [1..l -> SP] :
             LET chunk == Chunk(u, kind, ps) IN
             /\ received' = Append(received, chunk)
             /\ nChunks' = nChunks + 1
             /\ nSubParts' = nSubParts + Len(chunk.parts)
             /\ meta' = UpdateUsage(meta, chunk)
             /\ AfterUsage(chunk)
    /\ UNCHANGED <<peer, req, call, cancelled, sent, clock>>

PullChunk == PullChunkFrom(Usages, SubParts)
PullChunkPlain == PullChunkFrom({Nil}, PlainSubParts)
PullChunkIds == PullChunkFrom({Nil}, IdSubParts)

\* PullError that yields the error and goes on with the loop
PullErrorContinue ==
    /\ pc = "pull"
    /\ out' = Yield(out, <<Elem(ZeroPart,
                               Err(<<IF cancelled THEN "context canceled" ELSE "stream failed">>))>>)
    /\ UNCHANGED <<peer, req, call, meta, cancelled, sent, received, declinedAt, nChunks, nSubParts, clock>>
    /\ UNCHANGED <<pc, stop, streamOpen, cur, idx>>

\* the stream delivers an error (a transport failure, or the context's
\* error once the context is cancelled): one error element, then return
PullError ==
    /\ pc = "pull"
    /\ out' = Yield(out, <<Elem(ZeroPart,
                               Err(<<IF cancelled THEN "context canceled" ELSE "stream failed">>))>>)
    /\ Return("error")
    /\ UNCHANGED <<peer, req, call, meta, cancelled, sent, received, declinedAt, nChunks, nSubParts, clock>>

\* the stream ends: the range loop and the iterator function end
PullEnd ==
    /\ pc = "pull"
    /\ ~cancelled
    /\ Return("end")
    /\ UNCHANGED <<peer, req, call, meta, cancelled, sent, received, out, declinedAt, nChunks, nSubParts, clock>>

\* one pass of the loop over the sub-parts: what it yields, whether the
\* consumer declined an element (and which), and whether the loop returned.
\* acc1, acc2 are the consumer's answers to the two yields, t the clock
\* reading of createRandomID
ProcessPart(part, acc1, acc2, t) ==
    LET textElems == IF part.text # "" THEN <<Elem(OutText(part.text), Nil)>> ELSE <<>>
        textDeclined == part.text # "" /\ ~acc1
    IN
    IF part.text # "" /\ ReturnsOnDecline(acc1)
    THEN [elems |-> textElems, declined |-> 1, ret |-> TRUE, why |-> "declined", readClock |-> FALSE]
    ELSE IF part.fc = NoFC
    THEN [elems |-> textElems, declined |-> IF textDeclined THEN 1 ELSE 0, ret |-> FALSE,
          why |-> "", readClock |-> FALSE]
    ELSE
      LET m == Marshal(part.fc.args) IN
      IF m.err # Nil
      THEN [elems |-> Append(textElems,
                             Elem(ZeroPart, Err(<<"error marshaling response tool call args", m.err.msg>>))),
            declined |-> IF textDeclined THEN 1 ELSE 0, ret |-> TRUE, why |-> "error",
            readClock |-> FALSE]
      ELSE
        LET synth == part.fc.id = Lit("")
            id == IF synth THEN createRandomID(t) ELSE part.fc.id
            elems == Append(textElems, Elem(OutToolCall(id, part.fc.name, m.text), Nil))
        IN [elems |-> elems,
            declined |-> IF textDeclined THEN 1 ELSE IF acc2 THEN 0 ELSE Len(elems),
            ret |-> ReturnsOnDecline(acc2),
            why |-> IF ReturnsOnDecline(acc2) THEN "declined" ELSE "",
            readClock |-> synth]

\* the loop body for sub-part idx of the current chunk
StepPart ==
    /\ pc = "parts"
    /\ \E acc1 \in (IF cur[idx].text # "" THEN BOOLEAN ELSE {TRUE}),
          acc2 \in (IF cur[idx].fc # NoFC THEN BOOLEAN ELSE {TRUE}),
          t \in (IF cur[idx].fc # NoFC /\ cur[idx].fc.id = Lit("") THEN clock..MaxClock ELSE {clock}) :
         LET r == ProcessPart(cur[idx], acc1, acc2, t) IN
         /\ out' = Yield(out, r.elems)
         /\ declinedAt' = IF declinedAt = 0 /\ r.declined > 0
                          THEN Len(out) + r.declined ELSE declinedAt
         /\ clock' = IF r.readClock THEN t ELSE clock
         /\ IF r.ret
            THEN Return(r.why)
            ELSE /\ stop' = stop
                 /\ streamOpen' = streamOpen
                 /\ IF idx < Len(cur)
                    THEN /\ idx' = idx + 1
                         /\ cur' = cur
                         /\ pc' = "parts"
                    ELSE /\ idx' = 1
                         /\ cur' = <<>>
                         /\ pc' = "pull"
    /\ UNCHANGED <<peer, req, call, meta, cancelled, sent, received, nChunks, nSubParts>>

\* the caller cancels the call's context while the sequence is consumed
Cancel ==
    /\ pc \in {"pull", "parts"}
    /\ ~cancelled
    /\ cancelled' = TRUE
    /\ UNCHANGED <<peer, req, call, meta, sent>>
    /\ UNCHANGED iterVars

\* a ChatCompleter that keeps one accumulator for all its calls
NewMetadataShared(inUse) == CHOOSE a \in MetaAddrs : a \in inUse

\* meta := &gai.ChatCompleteResponseMetadata{}: a fresh accumulator, at an
\* address no live accumulator has
NewMetadata(inUse) == CHOOSE a \in MetaAddrs : a \notin inUse

\* the usage of the chunks the two calls' streams carry
MainUsages == {Nil, Usage(3, 2, 4, 9)}
PeerUsages == {Nil, Usage(5, 1, 1, 7)}
PullChunkUsage == PullChunkFrom(MainUsages, {})

\* a second ChatComplete call on the same ChatCompleter returns while the
\* first call's sequence is being consumed
PeerChatComplete ==
    /\ call.kind = "ok"
    /\ peer.pc = "none"
    /\ peer' = [pc |-> "pull", ptr |-> NewMetadata({MainMeta}), meta |-> ZeroUsage,
                received |-> <<>>]
    /\ UNCHANGED <<req, call, meta, cancelled, sent>>
    /\ UNCHANGED iterVars

\* the second call's iterator receives a chunk and updates the accumulator
\* its closure holds
PeerPull ==
    /\ peer.pc = "pull"
    /\ Len(peer.received) < MaxChunks
    /\ \E u \in PeerUsages :
         LET chunk == Chunk(u, "none", <<>>) IN
         IF peer.ptr = MainMeta
         THEN /\ meta' = UpdateUsage(meta, chunk)
              /\ peer' = [peer EXCEPT !.received = Append(@, chunk)]
         ELSE /\ meta' = meta
              /\ peer' = [peer EXCEPT !.received = Append(@, chunk),
                                       !.meta = UpdateUsage(@, chunk)]
    /\ UNCHANGED <<req, call, cancelled, sent>>
    /\ UNCHANGED iterVars

\* the second call's stream ends
PeerEnd ==
    /\ peer.pc = "pull"
    /\ peer' = [peer EXCEPT !.pc = "done"]
    /\ UNCHANGED <<req, call, meta, cancelled, sent>>
    /\ UNCHANGED iterVars

ChatCompleteStream ==
    /\ call.kind = "none"
    /\ \E r \in StreamRequests : ChatComplete(r)

\* ChatComplete on any request of at most MaxMsgs messages and MaxParts parts
ChatCompleteAny ==
    /\ call.kind = "none"
    /\ \E n \in 0..MaxMsgs, l \in 0..MaxParts :
         \E rs \in [1..n -> Roles], alphabet \in PartAlphabets, owner \in [1..l -> 1..n] :
           /\ NonDecreasing(owner)
           /\ \E flat \in [1..l -> alphabet], o \in ReqOptions :
                ChatComplete(Request(MessageList(n, rs, flat, owner), o.tools, o.schema))

Next == ChatCompleteStream \/ StartIteration \/ PullChunk \/ PullError \/ PullEnd
        \/ StepPart \/ Cancel

Spec == Init /\ [][Next]_vars

\* cancellation: streams of plain chunks; the stream answers every pull and
\* the consumer's loop body returns
PullPlain == PullChunkPlain \/ PullError \/ PullEnd
NextPlain == ChatCompleteStream \/ StartIteration \/ PullChunkPlain \/ PullError \/ PullEnd
             \/ StepPart \/ Cancel
FairSpec == Init /\ [][NextPlain]_vars /\ WF_vars(PullPlain) /\ WF_vars(StepPart)

\* ChatComplete on a conversation whose model turn is a tool call with the
\* JSON encoding of an argument map as its args
ChatCompleteToolCall ==
    /\ call.kind = "none"
    /\ \E ks \in SUBSET ArgKeys, id \in CallIds, name \in CallNames :
         \E f \in [ks -> ArgValues] : \E m \in {NilMap, MapOf(f)} :
           /\ m.nil => ks = {}
           /\ Marshal(m).err = Nil
           /\ ChatComplete(Request(<<[role |-> "model",
                                       parts |-> <<ToolCallPart(id, name, Marshal(m).text)>>],
                                      [role |-> "user", parts |-> <<TextPart("hi")>>]>>,
                                    <<>>, Nil))

\* ChatComplete on a one-message request with up to MaxTools tools
ChatCompleteTools ==
    /\ call.kind = "none"
    /\ \E n \in 1..MaxTools :
         \E tools \in [1..n -> ToolAlphabet] :
           ChatComplete(Request(<<[role |-> "user", parts |-> <<TextPart("hi")>>]>>, tools, Nil))

\* request validation, config build and assembly over all bounded requests
SpecAssembly == Init /\ [][ChatCompleteAny]_vars

\* ChatComplete on the requests whose parts may be malformed
ChatCompleteMalformed ==
    /\ call.kind = "none"
    /\ \E n \in 0..MaxMsgs, l \in 0..MaxParts :
         \E rs \in [1..n -> Roles], owner \in [1..l -> 1..n] :
           /\ NonDecreasing(owner)
           /\ \E flat \in [1..l -> MalformedParts], o \in ReqOptions :
                ChatComplete(Request(MessageList(n, rs, flat, owner), o.tools, o.schema))

\* calls that can fail, each followed by the consumer ranging over the
\* response it got, on a stream that ends at once
NextCall == ChatCompleteMalformed \/ StartIteration \/ PullEnd
SpecCall == Init /\ [][NextCall]_vars

\* streams of function calls, some without a backend id
NextIds == ChatCompleteStream \/ StartIteration \/ PullChunkIds \/ PullEnd \/ StepPart
SpecIds == Init /\ [][NextIds]_vars

\* two calls whose sequences are consumed at the same time
NextConcurrent == ChatCompleteStream \/ StartIteration \/ PullChunkUsage \/ PullEnd
                  \/ PeerChatComplete \/ PeerPull \/ PeerEnd
SpecConcurrent == Init /\ [][NextConcurrent]_vars

\* the conversions of one call: tool-call args, tool declarations
NextConvert == ChatCompleteToolCall \/ ChatCompleteTools
SpecConvert == Init /\ [][NextConvert]_vars

\* ChatComplete on a request with one tool, whose schema holds up to two
\* property definitions in one of the shapes
ChatCompleteToolSchema ==
    /\ call.kind = "none"
    /\ \E ks \in SUBSET PropNames :
         \E f \in [ks -> PropertyDefs(MaxDepth)] :
           /\ "y" \in ks => f["y"] \in LeafDefs
           /\ \E properties \in ToolSchemaShapes({<<n, f[n]>> : n \in ks})
                                \cup (IF ks = {} THEN {VNil} ELSE {}) :
                ChatComplete(Request(UserHi, <<SchemaTool(properties)>>, Nil))

\* ChatComplete on a request with a response schema
ChatCompleteResponseSchema ==
    /\ call.kind = "none"
    /\ \E schema \in ResponseSchemas(MaxDepth) :
         ChatComplete(Request(UserHi, <<>>, schema))

\* the schema conversions of one call
NextSchema == ChatCompleteToolSchema \/ ChatCompleteResponseSchema
SpecSchema == Init /\ [][NextSchema]_vars

(* ================================================================ claims *)
LastMsgNotUser(r) == Len(r.msgs) > 0 /\ r.msgs[Len(r.msgs)].role # "user"
HasPartOfType(r, ty) == \E i \in DOMAIN r.msgs : \E j \in DOMAIN r.msgs[i].parts :
                            r.msgs[i].parts[j].type = ty

\* C1: a call whose message list is empty or whose last message is not a
\* user message panics: no response, no error value, and no tool or schema
\* conversion, data read, session creation or streaming send has happened.
C1_FailFast ==
    (call.kind # "none" /\ (Len(req.msgs) = 0 \/ LastMsgNotUser(req)))
        => /\ call.kind = "panic"
           /\ call.res = EmptyResponse
           /\ call.events = <<>>
           /\ sent = <<>>
           /\ ~streamOpen

C1_Witness ==
    /\ call.kind = "panic"
    /\ LastMsgNotUser(req)
    /\ req.tools # <<>>
    /\ req.schema # Nil
    /\ HasPartOfType(req, "data")

\* the backend part a request part is translated to
ExpectedPart(p) ==
    CASE p.type = "text" -> GText(p.text)
      [] p.type = "tool_call" -> GFunctionCall(p.id, p.name, Unmarshal(p.args).val)
      [] p.type = "tool_result" ->
           GFunctionResponse(p.id, p.name,
                             IF p.err = Nil THEN MkMap({<<"output", GoString(p.content)>>})
                             ELSE MkMap({<<"error", GoString(p.err.msg)>>}))
      [] p.type = "data" -> GInlineData(p.mime, p.bytes)
ExpectedParts(ps) == [j \in 1..Len(ps) |-> ExpectedPart(ps[j])]

\* C2: a successful call on N messages hands the session N-1 history turns,
\* the translations of messages 1..N-1 in order with their parts in order,
\* and takes the translated parts of message N, in order, as the live input.
C2_HistorySplit ==
    call.kind = "ok" =>
        LET N == Len(req.msgs) IN
        /\ N >= 1
        /\ Len(call.res.history) = N - 1
        /\ \A i \in 1..(N - 1) :
              /\ call.res.history[i].role = req.msgs[i].role
              /\ call.res.history[i].parts = ExpectedParts(req.msgs[i].parts)
        /\ call.res.live = ExpectedParts(req.msgs[N].parts)

C2_Witness ==
    /\ call.kind = "ok"
    /\ Len(req.msgs) = 3
    /\ Len(call.res.history) = 2
    /\ Len(call.res.history[1].parts) = 1
    /\ Len(call.res.live) = 1
    /\ call.res.history[1].parts[1] # call.res.live[1]

\* what the consumer sees of an element; a synthesized id is seen as such
Synth == [k |-> "synth"]
View(e) ==
    IF e.err # Nil THEN [type |-> "error"]
    ELSE IF e.part.type = "text" THEN [type |-> "text", text |-> e.part.text]
    ELSE [type |-> "tool_call",
          id |-> IF e.part.id.k = "lit" THEN e.part.id ELSE Synth,
          name |-> e.part.name, args |-> e.part.args]
Views(es) == [i \in 1..Len(es) |-> View(es[i])]

\* the elements one backend sub-part stands for
ExpectedOfSubPart(sp) ==
    (IF sp.text # "" THEN <<[type |-> "text", text |-> sp.text]>> ELSE <<>>)
    \o (IF sp.fc # NoFC
        THEN <<[type |-> "tool_call",
                id |-> IF sp.fc.id = Lit("") THEN Synth ELSE sp.fc.id,
                name |-> sp.fc.name, args |-> Marshal(sp.fc.args).text]>>
        ELSE <<>>)
ExpectedOfChunk(c) == Flatten([j \in 1..Len(c.parts) |-> ExpectedOfSubPart(c.parts[j])])
Expected(chunks) == Flatten([i \in 1..Len(chunks) |-> ExpectedOfChunk(chunks[i])])

\* the received chunks as far as the loop has processed them
Processed ==
    IF pc = "parts"
    THEN [received EXCEPT ![Len(received)].parts = SubSeq(cur, 1, idx - 1)]
    ELSE received

IsPrefix(a, b) == Len(a) <= Len(b) /\ a = SubSeq(b, 1, Len(a))
NoErr(e) == e.err = Nil
Undisturbed == declinedAt = 0 /\ stop \in {"", "end"}

\* C3: for a consumer that accepts every element, the yielded parts are the
\* concatenation, in receipt order, of the chunks' sub-parts in their
\* within-chunk order; nothing is reordered, duplicated or merged.
C3_OrderPreserved ==
    /\ Undisturbed => Views(out) = Expected(Processed)
    /\ IsPrefix(Views(SelectSeq(out, NoErr)), Expected(received))

C3_Witness ==
    /\ pc = "done" /\ stop = "end" /\ declinedAt = 0
    /\ Len(received) = 2
    /\ Len(received[1].parts) >= 1
    /\ Len(received[2].parts) >= 1
    /\ Len(out) = 2
    /\ out[1].part.type = "tool_call"
    /\ out[2].part.type = "text"

IsErrElem(e) == e.err # Nil
ErrorCount == Len(SelectSeq(out, IsErrElem))

\* C4: an error element is the last element of the sequence: after it the
\* iterator has returned, yields nothing more and pulls no further chunk.
C4_ErrorIsLast ==
    \A i \in 1..Len(out) :
        out[i].err # Nil => (i = Len(out) /\ pc = "done" /\ ErrorCount = 1)

C4_Witness ==
    /\ stop = "error"
    /\ Len(out) >= 2
    /\ out[Len(out)].err # Nil
    /\ out[Len(out)].err.msg[1] = "error marshaling response tool call args"
    /\ nChunks < MaxChunks
    /\ Len(received[Len(received)].parts) >= 2

\* C5: once the consumer has declined an element, that element is the last
\* one yielded (the rest of the current chunk is dropped) and the iterator
\* has returned, so no further chunk is pulled.
C5_StopOnDecline ==
    declinedAt > 0 => (Len(out) = declinedAt /\ pc = "done" /\ stop = "declined")

C5_Witness ==
    /\ declinedAt = 1
    /\ Len(received) = 1
    /\ Len(received[1].parts) = 2
    /\ nChunks < MaxChunks

HasUsage(c) == c.usage # Nil
UsageChunks == SelectSeq(received, HasUsage)
LastUsage == UsageChunks[Len(UsageChunks)].usage
Drained == pc = "done" /\ stop = "end"

\* C6: after the sequence is drained without error, the prompt, completion
\* and thoughts counters are those of the last chunk that carried usage.
C6_LastWriteWins ==
    (Drained /\ UsageChunks # <<>>)
        => /\ meta.prompt = LastUsage.prompt
           /\ meta.completion = LastUsage.candidates
           /\ meta.thoughts = LastUsage.thoughts

C6_Witness ==
    /\ Drained
    /\ Len(UsageChunks) = 2
    /\ UsageChunks[1].usage # UsageChunks[2].usage
    /\ meta.completion = UsageChunks[2].usage.candidates

\* C7: after the sequence is drained and the stream carried usage with
\* positive counts, the total-tokens counter is positive and is the sum of
\* the prompt, thoughts and completion counters.
C7_TotalTokens ==
    (Drained /\ UsageChunks # <<>>
       /\ LastUsage.prompt > 0 /\ LastUsage.thoughts > 0 /\ LastUsage.candidates > 0)
        => /\ meta.total > 0
           /\ meta.total = meta.prompt + meta.thoughts + meta.completion

HasContent(c) == c.cand = "content"

\* C8: a chunk without candidate content yields nothing, is no error and
\* does not end the loop, and the sub-parts of the chunks with content are
\* all yielded wherever the content-less chunks stand in the stream.
C8_SkipsEmptyChunks ==
    /\ [](Undisturbed => Views(out) = Expected(SelectSeq(Processed, HasContent)))
    /\ [][(Len(received') = Len(received) + 1 /\ ~HasContent(received'[Len(received')]))
            => (out' = out /\ pc' = "pull" /\ stop' = "" /\ streamOpen')]_vars

C8_Witness ==
    /\ Drained
    /\ Len(received) = 2
    /\ ~HasContent(received[1])
    /\ HasContent(received[2])
    /\ Len(out) >= 2

CancelErr == Err(<<"context canceled">>)

C10_SendOnce == Len(sent) <= 1

\* what can make a call fail recoverably before the session is created
BadToolCallArgs(p) == p.type = "tool_call" /\ Unmarshal(p.args).err # Nil
FailingData(p) == p.type = "data" /\ p.fails
HasPartSuchThat(r, Test(_)) ==
    \E i \in DOMAIN r.msgs : \E j \in DOMAIN r.msgs[i].parts : Test(r.msgs[i].parts[j])
ToolsFail(r) == Len(r.tools) > 0 /\ ConvertTools(r.tools).errs # {}
SchemaFails(r) == r.schema # Nil /\ ConvertResponseSchema(r.schema).errs # {}
CreateFailed == call.msg = <<"chat session creation failed">>

\* C11: a call that fails recoverably returns a non-nil error and the empty
\* response; the session is not created after a failure (creation is the
\* last step, and the only one when it is what failed), nothing is ever
\* sent for the call, and a call on a request with a failing tool, schema,
\* tool-call args or data reader never succeeds.
C11_AbortsWhole ==
    /\ call.kind = "error" =>
          /\ call.msg # <<>>
          /\ call.res = EmptyResponse
          /\ sent = <<>> /\ ~streamOpen /\ pc = "idle"
          /\ \A i \in DOMAIN call.events :
                call.events[i] = "Chats.Create" => (i = Len(call.events) /\ CreateFailed)
    /\ call.kind = "ok" =>
          /\ ~ToolsFail(req) /\ ~SchemaFails(req)
          /\ ~HasPartSuchThat(req, BadToolCallArgs)
          /\ ~HasPartSuchThat(req, FailingData)
    /\ (call.kind # "none" /\ Validate(req.msgs) = "" /\ ToolsFail(req))
          => (call.kind = "error" /\ call.events = <<"ConvertTools">>)

C11_Witness ==
    /\ call.kind = "error"
    /\ call.msg[1] = "error reading request data"
    /\ Len(req.msgs) = 2
    /\ req.msgs[1].parts = <<TextPart("hi")>>
    /\ FailingData(req.msgs[2].parts[1])
    /\ call.res = EmptyResponse

\* the backend part assembled for part j of message i of a successful call
Assembled(i, j) ==
    IF i < Len(req.msgs) THEN call.res.history[i].parts[j] ELSE call.res.live[j]
IsFailedResult(p) == p.type = "tool_result" /\ p.err # Nil /\ p.content # ""

\* C12: a tool-result part becomes a function-response part with the
\* result's name and id and a one-key payload: "output" with the content
\* when the result has no error, "error" with the error string when it has
\* one, and then no "output" key and no content.
C12_ToolResultPayload ==
    call.kind = "ok" =>
        \A i \in DOMAIN req.msgs : \A j \in DOMAIN req.msgs[i].parts :
            LET p == req.msgs[i].parts[j]
                g == Assembled(i, j)
            IN p.type = "tool_result" =>
                 /\ g.k = "functionResponse"
                 /\ g.name = p.name
                 /\ g.id = p.id
                 /\ ~g.response.nil
                 /\ Cardinality(g.response.kv) = 1
                 /\ p.err = Nil => g.response.kv = {<<"output", GoString(p.content)>>}
                 /\ p.err # Nil =>
                       /\ g.response.kv = {<<"error", GoString(p.err.msg)>>}
                       /\ "output" \notin KeysOf(g.response)
                       /\ \A q \in g.response.kv : q[2] # GoString(p.content)

C12_Witness ==
    /\ call.kind = "ok"
    /\ Len(req.msgs) = 2
    /\ Len(req.msgs[1].parts) = 1 /\ Len(req.msgs[2].parts) = 1
    /\ IsFailedResult(req.msgs[1].parts[1])
    /\ req.msgs[2].parts[1].type = "tool_result" /\ req.msgs[2].parts[1].err = Nil
    /\ Assembled(1, 1).response.kv = {<<"error", GoString("boom")>>}
    /\ Assembled(2, 1).response.kv = {<<"output", GoString("ok")>>}

ArgMaps == {NilMap} \cup {MapOf(f) : f \in UNION {[ks -> ArgValues] : ks \in SUBSET ArgKeys}}
\* equal as values: numbers by their numeric value, whatever their Go type
SameValue(x, y) ==
    IF IsNumber(x) /\ IsNumber(y) THEN x.hi = y.hi /\ x.lo = y.lo ELSE x = y
SameMap(x, y) ==
    /\ KeysOf(x) = KeysOf(y)
    /\ \A key \in KeysOf(x) : SameValue(ValOf(x, key), ValOf(y, key))

\* C13: a tool-call part whose args are the JSON encoding of an argument
\* map m is assembled into a function-call part with the part's name and id
\* and an argument map with the keys and the values of m.
C13_ToolCallRoundTrip ==
    call.kind = "ok" =>
        \A i \in DOMAIN req.msgs : \A j \in DOMAIN req.msgs[i].parts :
            LET p == req.msgs[i].parts[j]
                g == Assembled(i, j)
            IN p.type = "tool_call" =>
                 \A m \in ArgMaps :
                    (Marshal(m).err = Nil /\ p.args = Marshal(m).text)
                        => /\ g.k = "functionCall"
                           /\ g.name = p.name
                           /\ g.id = p.id
                           /\ SameMap(g.args, m)

IsToolCallElem(e) == e.err = Nil /\ e.part.type = "tool_call"
ToolCallsOut == SelectSeq(out, IsToolCallElem)
HasFC(sp) == sp.fc # NoFC
\* the function calls of the received chunks, in order
FunctionCalls == SelectSeq(Flatten([i \in 1..Len(received) |-> received[i].parts]), HasFC)
IsSynthesized(id) == id.k = "sha256"
NonEmptyId(id) == IsSynthesized(id) \/ id.s # ""

\* C14: every yielded tool-call part has a non-empty id and the name of the
\* backend's function call; its id is the backend's id when that is not
\* empty, and a synthesized id exactly when the backend's id is empty.
C14_ToolCallIds ==
    /\ Len(ToolCallsOut) <= Len(FunctionCalls)
    /\ \A i \in 1..Len(ToolCallsOut) :
          LET e == ToolCallsOut[i].part
              fc == FunctionCalls[i].fc
          IN /\ NonEmptyId(e.id)
             /\ e.name = fc.name
             /\ fc.id # Lit("") => e.id = fc.id
             /\ IsSynthesized(e.id) <=> fc.id = Lit("")

C14_Witness ==
    /\ Drained
    /\ Len(ToolCallsOut) = 2
    /\ ToolCallsOut[1].part.id = Lit("c1") /\ ToolCallsOut[1].part.name = "f"
    /\ IsSynthesized(ToolCallsOut[2].part.id) /\ ToolCallsOut[2].part.name = "g"

\* C15: two tool-call parts of one response whose ids were both synthesized
\* have different ids, also when both ids were made at the same clock
\* reading.
C15_NoIdCollision ==
    \A i, j \in 1..Len(ToolCallsOut) :
        (i # j /\ IsSynthesized(ToolCallsOut[i].part.id) /\ IsSynthesized(ToolCallsOut[j].part.id))
            => ToolCallsOut[i].part.id # ToolCallsOut[j].part.id

\* C16: when the stream delivers finitely many chunks and ends, and the
\* consumer keeps consuming, the sequence ends: every iteration that was
\* started finishes, the elements yielded are those of the received chunks
\* and no more, and once the stream has ended the iterator has returned.
C16_Terminates ==
    /\ [](Len(SelectSeq(out, NoErr)) <= Len(Expected(received)))
    /\ []((Drained /\ declinedAt = 0) => Views(out) = Expected(received))
    /\ [](stop = "end" => (pc = "done" /\ ~streamOpen))
    /\ (pc \in {"pull", "parts"} ~> pc = "done")

C16_Witness ==
    /\ Drained /\ declinedAt = 0 /\ ~cancelled
    /\ Len(received) = 2
    /\ Len(out) = 2
    /\ Views(out) = Expected(received)
    /\ ~streamOpen

\* the accumulator the second call's response shows
PeerMeta == IF peer.ptr = MainMeta THEN meta ELSE peer.meta
\* the accumulator of a call that processed chunks and nothing else
AloneUsage(chunks) ==
    LET us == SelectSeq(chunks, HasUsage) IN
    IF us = <<>> THEN ZeroUsage ELSE UpdateUsage(ZeroUsage, us[Len(us)])

\* C17: under every interleaving of two calls' chunk processing, a call's
\* accumulator changes only when that call processes a chunk of its own
\* stream, and when a call's stream has ended its accumulator is what the
\* call's own chunks alone give.
C17_NoSharedState ==
    /\ [][meta' # meta =>
            /\ peer' = peer
            /\ Len(received') = Len(received) + 1
            /\ meta' = UpdateUsage(meta, received'[Len(received')])]_vars
    /\ [][PeerMeta' # PeerMeta =>
            /\ received' = received
            /\ Len(peer'.received) = Len(peer.received) + 1
            /\ PeerMeta' = UpdateUsage(PeerMeta, peer'.received[Len(peer'.received)])]_vars
    /\ [](peer.pc = "done" => PeerMeta = AloneUsage(peer.received))
    /\ []((Drained /\ Len(sent) = 1) => meta = AloneUsage(received))

C17_Witness ==
    /\ Drained /\ Len(sent) = 1
    /\ peer.pc = "done"
    /\ Len(UsageChunks) >= 1
    /\ Len(SelectSeq(peer.received, HasUsage)) >= 1
    /\ received[Len(received)].usage = Nil
    /\ meta # PeerMeta
    /\ meta # ZeroUsage /\ PeerMeta # ZeroUsage

\* places of a request in the order assembly visits them: <<i, 0>> is the
\* role of message i, <<i, j>> its part j
Places(r) == {a \in (DOMAIN r.msgs) \X (0..MaxParts) : a[2] <= Len(r.msgs[a[1]].parts)}
Earlier(a, b) == a[1] < b[1] \/ (a[1] = b[1] /\ a[2] < b[2])
UnknownPart(p) == p.type \notin {"text", "tool_call", "tool_result", "data"}
UnknownAt(r, a) ==
    IF a[2] = 0 THEN r.msgs[a[1]].role \notin {"user", "model"}
    ELSE UnknownPart(r.msgs[a[1]].parts[a[2]])
FaultAt(r, a) ==
    a[2] > 0 /\ (BadToolCallArgs(r.msgs[a[1]].parts[a[2]]) \/ FailingData(r.msgs[a[1]].parts[a[2]]))
\* assembly reaches an unknown role or part kind before anything else fails
ReachesUnknown(r) ==
    /\ Validate(r.msgs) = ""
    /\ ~ToolsFail(r) /\ ~SchemaFails(r)
    /\ \E a \in Places(r) :
          /\ UnknownAt(r, a)
          /\ \A b \in Places(r) : Earlier(b, a) => ~FaultAt(r, b)

\* C18: when assembly reaches a message whose role is neither user nor model
\* or a part of none of the four kinds, the call panics: it returns neither
\* an error nor a response, creates no session and sends nothing; and no
\* call on a request with such a message or part succeeds.
C18_UnknownFailsFast ==
    /\ (call.kind # "none" /\ ReachesUnknown(req)) =>
          /\ call.kind = "panic"
          /\ call.msg \in {<<"unknown role">>, <<"unknown part type">>}
          /\ call.res = EmptyResponse
          /\ \A i \in DOMAIN call.events : call.events[i] # "Chats.Create"
          /\ sent = <<>> /\ ~streamOpen /\ pc = "idle"
    /\ call.kind = "ok" => \A a \in Places(req) : ~UnknownAt(req, a)

C18_Witness ==
    /\ call.kind = "panic"
    /\ call.msg = <<"unknown part type">>
    /\ Len(req.msgs) = 2
    /\ req.msgs[1].role = "model"
    /\ req.msgs[1].parts = <<TextPart("hi")>>
    /\ req.msgs[2].parts = <<OtherPart>>
    /\ call.events = <<"ConvertTools", "ConvertResponseSchema">>

Converts(tool) == ConvertToolToFunction(tool).errs = {}
Declarations == call.config.tools[1].functionDeclarations

\* C19: a tool list whose tools all convert gives exactly one tool group,
\* with one function declaration per tool, in the order of the tools, each
\* with its tool's name and description.
C19_ToolsInOrder ==
    (call.kind = "ok" /\ Len(req.tools) > 0) =>
        /\ \A i \in DOMAIN req.tools : Converts(req.tools[i])
        /\ Len(call.config.tools) = 1
        /\ Len(Declarations) = Len(req.tools)
        /\ \A i \in DOMAIN req.tools :
              /\ Declarations[i].name = req.tools[i].name
              /\ Declarations[i].description = req.tools[i].description

C19_Witness ==
    /\ call.kind = "ok"
    /\ req.tools = <<ListTool, GoodTool, ListTool>>
    /\ Len(Declarations) = 3
    /\ Declarations[1].name = "list_dir"
    /\ Declarations[2].name = "read_file"
    /\ Declarations[2].description = "Read a file"

FirstFailing(tools) ==
    CHOOSE i \in DOMAIN tools :
        ~Converts(tools[i]) /\ \A l \in 1..(i - 1) : Converts(tools[l])

\* C20: when a tool of the list does not convert, the call fails with an
\* error that names the first such tool, and no tool group (no declaration
\* of any of the tools that did convert) is produced.
C20_ToolsAllOrNothing ==
    (call.kind # "none" /\ Validate(req.msgs) = ""
       /\ \E i \in DOMAIN req.tools : ~Converts(req.tools[i]))
        => /\ call.kind = "error"
           /\ call.config.tools = <<>>
           /\ Len(call.msg) >= 3
           /\ call.msg[1] = "error converting tools"
           /\ call.msg[2] = "converting tool"
           /\ call.msg[3] = req.tools[FirstFailing(req.tools)].name
           /\ call.events = <<"ConvertTools">>

C20_Witness ==
    /\ call.kind = "error"
    /\ req.tools = <<GoodTool, NestedBadTool, BadTool>>
    /\ call.msg[3] = "worse"
    /\ call.config.tools = <<>>

(* --------------------------------------------------- schema conversions *)
\* the Properties of the request's only tool, and what the session config
\* holds for them
ToolProps == req.tools[1].schema
Parameters == call.config.tools[1].functionDeclarations[1].parameters
OneToolConverted == call.kind = "ok" /\ Len(req.tools) = 1
Names(kv) == {p[1] : p \in kv}
StringsOf(l) == LET strs == SelectSeq(l, IsStr) IN [i \in DOMAIN strs |-> strs[i].s]

\* C21: ConvertToolSchema accepts both shapes. With a top-level "properties"
\* key whose value is a map, the output object's properties are exactly the
\* keys of that nested map and its required list is the strings of the
\* top-level "required" list, in order; without such a key every top-level
\* key is a property of the output object and the required list is empty.
C21_BothShapes ==
    (OneToolConverted /\ IsMap(ToolProps)) =>
        LET inner == Get(ToolProps, "properties")
            required == Get(ToolProps, "required")
        IN  /\ Parameters.type = "OBJECT"
            /\ IF IsMap(inner)
               THEN /\ Names(Parameters.props) = Names(inner.kv)
                    /\ Parameters.required =
                          IF required.k = "list" THEN StringsOf(required.l) ELSE <<>>
               ELSE /\ Names(Parameters.props) = Names(ToolProps.kv)
                    /\ Parameters.required = <<>>

C21_Witness ==
    /\ OneToolConverted
    /\ ToolProps = VMap({<<"properties",
                           VMap({<<"x", VMap({<<"type", VStr("custom")>>})>>,
                                 <<"y", VMap({<<"type", VStr("integer")>>})>>})>>,
                         <<"required", VList(<<VStr("y"), VNil, VStr("x")>>)>>,
                         <<"type", VStr("object")>>})
    /\ Names(Parameters.props) = {"x", "y"}
    /\ Parameters.required = <<"y", "x">>

KnownTypes == {"string", "number", "integer", "boolean", "array", "object"}
\* the definitions ConvertToolSchema converts: those of the nested map in
\* the wrapped shape, the top-level ones otherwise
SourceDefs ==
    IF IsMap(Get(ToolProps, "properties")) THEN Get(ToolProps, "properties").kv
    ELSE ToolProps.kv
IsArrayDef(def) == IsMap(def) /\ Get(def, "type") = VStr("array") /\ IsMap(Get(def, "items"))
IsObjectDef(def) ==
    IsMap(def) /\ Get(def, "type") = VStr("object") /\ IsMap(Get(def, "properties"))

RECURSIVE NotMapPaths(_)
\* the ways from a definition down to a reached value that is not a map,
\* each as the error text of that way
NotMapPaths(def) ==
    IF ~IsMap(def) THEN {<<"property is not a map">>}
    ELSE (IF IsArrayDef(def)
          THEN {<<"converting array items">> \o w : w \in NotMapPaths(Get(def, "items"))}
          ELSE {})
         \cup (IF IsObjectDef(def)
               THEN UNION {{<<"converting object property", p[1]>> \o w : w \in NotMapPaths(p[2])} :
                              p \in Get(def, "properties").kv}
               ELSE {})
ToolErrors ==
    UNION {{<<"converting property", p[1]>> \o w : w \in NotMapPaths(p[2])} : p \in SourceDefs}

RECURSIVE ToolNodes(_, _)
\* the pairs <<definition, output schema>> of a converted definition
ToolNodes(def, res) ==
    {<<def, res>>}
    \cup (IF IsArrayDef(def) /\ res.items # Nil
          THEN ToolNodes(Get(def, "items"), res.items) ELSE {})
    \cup (IF IsObjectDef(def)
          THEN UNION {UNION {ToolNodes(p[2], q[2]) : q \in {o \in res.props : o[1] = p[1]}} :
                         p \in Get(def, "properties").kv}
          ELSE {})
ConvertedDefs ==
    UNION {UNION {ToolNodes(p[2], q[2]) : q \in {o \in Parameters.props : o[1] = p[1]}} :
              p \in SourceDefs}

RECURSIVE SchemaNodes(_, _)
\* the pairs <<input node, output node>> of a converted response schema
SchemaNodes(src, res) ==
    {<<src, res>>}
    \cup (IF src.type = "array" /\ src.items # Nil /\ res.items # Nil
          THEN SchemaNodes(src.items, res.items) ELSE {})
    \cup (IF src.type = "object"
          THEN UNION {UNION {SchemaNodes(p[2], q[2]) : q \in {o \in res.props : o[1] = p[1]}} :
                         p \in {o \in src.props : o[2] # Nil}}
          ELSE {})
    \cup (IF src.anyOf # Nil /\ res.anyOf # Nil
          THEN UNION {SchemaNodes(src.anyOf.l[i], res.anyOf.l[i]) :
                         i \in {l \in DOMAIN src.anyOf.l \cap DOMAIN res.anyOf.l :
                                   src.anyOf.l[l] # Nil}}
          ELSE {})
ConvertedNodes == SchemaNodes(req.schema, call.config.responseSchema)

UnknownTag(def) ==
    IsMap(def) /\ IsStr(Get(def, "type")) /\ Get(def, "type").s \notin KnownTypes
\* calls of the two kinds on which the conversion has no reason to fail
ToolSchemaCall == call.kind # "none" /\ Len(req.tools) = 1 /\ IsMap(ToolProps)
ResponseSchemaCall == call.kind \in {"ok", "error"} /\ req.schema # Nil

\* C22: in both converter paths a type tag that is present but is none of
\* string, number, integer, boolean, array, object gives an output schema
\* of type STRING, and is never the cause of an error.
C22_UnknownTypeIsString ==
    /\ (ToolSchemaCall /\ ToolErrors = {}) =>
          /\ call.kind = "error" => CreateFailed
          /\ call.kind = "ok" =>
                \A n \in ConvertedDefs : UnknownTag(n[1]) => n[2].type = "STRING"
    /\ ResponseSchemaCall =>
          /\ call.kind = "error" => CreateFailed
          /\ call.kind = "ok" =>
                \A n \in ConvertedNodes :
                    (n[1].type # "" /\ n[1].type \notin KnownTypes) => n[2].type = "STRING"

C22_Witness ==
    /\ OneToolConverted
    /\ ToolProps = VMap({<<"x", VMap({<<"type", VStr("array")>>,
                                      <<"items", VMap({<<"type", VStr("custom")>>})>>})>>,
                         <<"y", VMap({<<"type", VStr("integer")>>})>>})
    /\ \E n \in ConvertedDefs : n[1] = VMap({<<"type", VStr("custom")>>}) /\ n[2].type = "STRING"
    /\ Cardinality(ConvertedDefs) = 3

\* C23: in the tool path a property definition without a "type" entry, or
\* with a "type" that is no string, converts without error to an output
\* schema of type STRING.
C23_AbsentTypeIsString ==
    (ToolSchemaCall /\ ToolErrors = {}) =>
        /\ call.kind = "error" => CreateFailed
        /\ call.kind = "ok" =>
              \A n \in ConvertedDefs :
                  (IsMap(n[1]) /\ ~IsStr(Get(n[1], "type"))) => n[2].type = "STRING"

ConstraintFields ==
    {"description", "default", "enum", "example", "format", "maxItems", "maxLength",
     "maxProperties", "maximum", "minItems", "minLength", "minProperties", "minimum",
     "nullable", "pattern", "propertyOrdering", "title"}
ResponseSchemaConverted == call.kind = "ok" /\ req.schema # Nil

\* C24: ConvertResponseSchema copies every constraint field from the input
\* node to the output node unchanged, at every node of the tree, whatever
\* the type the node resolves to, and whether the field is set or not.
C24_ConstraintsCopied ==
    ResponseSchemaConverted =>
        \A n \in ConvertedNodes : \A f \in ConstraintFields : n[2][f] = n[1][f]

C24_Witness ==
    /\ ResponseSchemaConverted
    /\ req.schema = [Node("array", NoConstraints) EXCEPT
                        !.items = [Node("object", AllConstraints) EXCEPT
                                      !.props = {<<"x", Node("boolean", SomeConstraints)>>}]]
    /\ Cardinality(ConvertedNodes) = 3
    /\ call.config.responseSchema.maxItems = Nil
    /\ call.config.responseSchema.items.maxLength = Ptr(100)
    /\ call.config.responseSchema.items.maximum = Ptr(100)
    /\ \E q \in call.config.responseSchema.items.props :
          /\ q[2].type = "BOOLEAN"
          /\ q[2].enum = Slice(<<>>)
          /\ q[2].minLength = Ptr(0)
          /\ q[2].propertyOrdering = Nil

\* the backend type of the same name
BackendType ==
    [t \in KnownTypes |->
        CASE t = "string" -> "STRING" [] t = "number" -> "NUMBER"
          [] t = "integer" -> "INTEGER" [] t = "boolean" -> "BOOLEAN"
          [] t = "array" -> "ARRAY" [] t = "object" -> "OBJECT"]
RECURSIVE BaseTree(_)
\* a tree of the six base types with nested objects and arrays
BaseTree(schema) ==
    IF schema = Nil THEN FALSE
    ELSE /\ schema.type \in KnownTypes
         /\ schema.anyOf = Nil
         /\ (schema.type = "array" /\ schema.items # Nil) => BaseTree(schema.items)
         /\ schema.type = "object" => \A p \in schema.props : BaseTree(p[2])

\* C25: ConvertResponseSchema preserves the structure of a tree of the six
\* base types. Every node gets the backend type of the same name; an object
\* node's output has exactly the input's property names, each with the
\* conversion of its sub-schema, and the same required list; an array
\* node's output has the conversion of the item schema if there is one and
\* no item schema otherwise.
C25_StructurePreserved ==
    (ResponseSchemaConverted /\ BaseTree(req.schema)) =>
        \A n \in ConvertedNodes :
            /\ n[2].type = BackendType[n[1].type]
            /\ n[1].type = "object" =>
                  /\ Names(n[2].props) = Names(n[1].props)
                  /\ Cardinality(n[2].props) = Cardinality(n[1].props)
                  /\ n[2].required = n[1].required
                  /\ \A p \in n[1].props : \A q \in n[2].props :
                        p[1] = q[1] => q[2] = ConvertResponseSchema(p[2]).schema
            /\ n[1].type = "array" =>
                  n[2].items = IF n[1].items = Nil THEN Nil
                               ELSE ConvertResponseSchema(n[1].items).schema
            /\ n[1].type \notin {"array", "object"} =>
                  n[2].items = Nil /\ n[2].props = {} /\ n[2].required = <<>>

C25_Witness ==
    /\ ResponseSchemaConverted
    /\ req.schema = [Node("object", NoConstraints) EXCEPT
                        !.props = {<<"x", [Node("array", AllConstraints) EXCEPT
                                              !.items = Node("number", NoConstraints)]>>,
                                   <<"y", IntegerLeaf>>},
                        !.required = <<"y", "x">>]
    /\ BaseTree(req.schema)
    /\ Cardinality(ConvertedNodes) = 4
    /\ call.config.responseSchema.required = <<"y", "x">>
    /\ \E q \in call.config.responseSchema.props :
          q[1] = "x" /\ q[2].type = "ARRAY" /\ q[2].items.type = "NUMBER"
    /\ \E q \in call.config.responseSchema.props : q[1] = "y" /\ q[2].type = "INTEGER"

\* C26: ConvertResponseSchema turns an any-of list into a parallel list of
\* the same length whose i-th entry is the conversion of the i-th input
\* entry, and leaves the output's any-of unset, not an empty list, when the
\* input's any-of is empty or absent.
C26_AnyOfParallel ==
    ResponseSchemaConverted =>
        \A n \in ConvertedNodes :
            IF n[1].anyOf = Nil \/ n[1].anyOf.l = <<>>
            THEN n[2].anyOf = Nil
            ELSE /\ n[2].anyOf # Nil
                 /\ Len(n[2].anyOf.l) = Len(n[1].anyOf.l)
                 /\ \A i \in DOMAIN n[1].anyOf.l :
                       n[2].anyOf.l[i] = ConvertResponseSchema(n[1].anyOf.l[i]).schema

\* C27: ConvertToolSchema fails, with no schema, whenever a property
\* definition it reaches (a top-level property, a nested object property,
\* the processed items of an array) is not a map, and the error carries the
\* name of each enclosing property on the way to such a value.
C27_NotMapFails ==
    (ToolSchemaCall /\ ToolErrors # {}) =>
        /\ call.kind = "error"
        /\ call.config.tools = <<>>
        /\ call.msg \in {<<"error converting tools", "converting tool", req.tools[1].name,
                           "converting schema">> \o w : w \in ToolErrors}

C27_Witness ==
    /\ ToolSchemaCall
    /\ ToolProps = VMap({<<"x", VMap({<<"type", VStr("array")>>,
                                      <<"items", VMap({<<"type", VStr("object")>>,
                                                       <<"properties",
                                                         VMap({<<"x", VStr("string")>>})>>})>>})>>,
                         <<"y", VStr("string")>>})
    /\ Cardinality(ToolErrors) = 2
    /\ call.kind = "error"
    /\ call.msg = <<"error converting tools", "converting tool", "t", "converting schema",
                    "converting property", "x", "converting array items",
                    "converting object property", "x", "property is not a map">>

RECURSIVE AllPresent(_)
\* no property and no any-of entry of the tree is a nil sub-schema
AllPresent(schema) ==
    /\ \A p \in schema.props : p[2] # Nil /\ AllPresent(p[2])
    /\ schema.items # Nil => AllPresent(schema.items)
    /\ schema.anyOf # Nil =>
          \A i \in DOMAIN schema.anyOf.l :
              schema.anyOf.l[i] # Nil /\ AllPresent(schema.anyOf.l[i])

\* C30: on every finite schema tree whose sub-schemas are all present,
\* ConvertResponseSchema comes back with a schema and a nil error: the call
\* goes on to the session creation, which is then the only step that can
\* still fail.
C30_ResponseSchemaNeverFails ==
    (call.kind # "none" /\ req.schema # Nil /\ AllPresent(req.schema)) =>
        /\ call.kind \in {"ok", "error"}
        /\ call.events = <<"ConvertResponseSchema", "Chats.Create">>
        /\ call.kind = "error" => CreateFailed
        /\ call.kind = "ok" => call.config.responseSchema # Nil

C30_Witness ==
    /\ ResponseSchemaConverted
    /\ req.schema =
          [Node("string", NoConstraints) EXCEPT
              !.anyOf = Slice(<<[Node("object", AllConstraints) EXCEPT
                                    !.props = {<<"x", Node("custom", NoConstraints)>>}],
                                IntegerLeaf>>)]
    /\ AllPresent(req.schema)
    /\ Len(call.config.responseSchema.anyOf.l) = 2
    /\ call.events = <<"ConvertResponseSchema", "Chats.Create">>

(* ------------------------------------------------- accumulator and send *)
\* C28: a chunk without usage metadata leaves the usage accumulator as it
\* is, and so does every other step (an error element, a stop by the
\* consumer, the end of the stream); only a chunk with usage metadata
\* writes it, and then the prompt, thoughts and completion counters are
\* that chunk's. From the zero accumulator of a new call, the accumulator
\* is therefore always that of the latest chunk with usage, or zero.
C28_UsageFrame ==
    [][LET pulled == Len(received') = Len(received) + 1
           chunk == received'[Len(received')]
       IN  IF pulled /\ HasUsage(chunk)
           THEN /\ meta'.prompt = chunk.usage.prompt
                /\ meta'.thoughts = chunk.usage.thoughts
                /\ meta'.completion = chunk.usage.candidates
           ELSE meta' = meta]_vars

C28_Witness ==
    /\ pc = "done"
    /\ stop = "error"
    /\ Len(received) = 2
    /\ HasUsage(received[1])
    /\ ~HasUsage(received[2])
    /\ received[1].usage.prompt > 0
    /\ meta.prompt = received[1].usage.prompt
    /\ meta.completion = received[1].usage.candidates

\* C29: ChatComplete sends nothing and reads no chunk. When it has returned
\* successfully and the consumer has not begun to iterate, the session has
\* been created, nothing has been sent or received, and the accumulator is
\* zero; a call that did not succeed never sends.
C29_LazySend ==
    /\ (call.kind = "ok" /\ pc = "idle") =>
          /\ call.events # <<>>
          /\ call.events[Len(call.events)] = "Chats.Create"
          /\ sent = <<>>
          /\ ~streamOpen
          /\ received = <<>>
          /\ out = <<>>
          /\ meta = ZeroUsage
    /\ call.kind # "ok" => sent = <<>>

C29_Witness ==
    /\ call.kind = "ok"
    /\ pc = "idle"
    /\ call.res.live = <<GText("hi")>>
    /\ call.events = <<"Chats.Create">>
    /\ sent = <<>>
    /\ meta = ZeroUsage

====
